---- MODULE Spec2Model ----
(***************************************************************************)
(* Model of the MCP S3 server: the tool registry (list_tools), the         *)
(* dispatcher (call_tool) and the two storage handlers list_objects_tool   *)
(* and download_file_tool, with the storage client, the backend and the    *)
(* local filesystem as nondeterministic collaborators.                     *)
(*                                                                         *)
(* Text is modelled as a sequence of tokens: a token is the separator "/"  *)
(* or a piece of text that holds no separator.  Paths follow the POSIX     *)
(* rules of os.path.                                                       *)
(***************************************************************************)
EXTENDS Integers, Sequences, FiniteSets, TLC

VARIABLES cfg, req, fs, workload

vars == <<cfg, req, fs, workload>>

----------------------------------------------------------------------------
(* Loosely-typed argument values (Dict[str, Any]).                         *)

None == [k |-> "none"]

StrV(s) == [k |-> "str", s |-> s]

IntV(n) == [k |-> "int", n |-> n]

\* Truthy that only tells None apart (`if bucket_name is None`)
TruthyNotNone(v) == v.k # "none"

\* Python truth value, as used by `if not bucket_name:`.
Truthy(v) ==
    CASE v.k = "none" -> FALSE
      [] v.k = "str"  -> v.s # <<>>
      [] v.k = "int"  -> v.n # 0

\* arguments.get(key, default)
DictGet(d, key, default) == IF key \in DOMAIN d THEN d[key] ELSE default

----------------------------------------------------------------------------
(* Configuration: built once from the environment, read-only afterwards.   *)

AccessKeys == {<<>>, <<"AKIA">>}

SecretKeys == {<<>>, <<"secret">>}

FromEnvironment == [access_key : AccessKeys, secret_key : SecretKeys]

IsConfigured(c) == c.access_key # <<>> /\ c.secret_key # <<>>

----------------------------------------------------------------------------
(* Tool registry.                                                          *)

list_tools ==
    << [name |-> "test_connection",  required |-> <<>>],
       [name |-> "list_s3_buckets",  required |-> <<>>],
       [name |-> "list_s3_objects",  required |-> <<"bucket_name">>],
       [name |-> "download_s3_file", required |-> <<"bucket_name", "object_key">>] >>

MaxKeysSchemaDefault == 100

MaxKeysSchemaMinimum == 1

MaxKeysSchemaMaximum == 1000

----------------------------------------------------------------------------
(* Human-readable size, as each handler computes it.  size / unit is exact *)
(* in binary floating point for these sizes, and the ".1f" conversion      *)
(* rounds the exact value to one decimal, ties to even.                    *)

KiB == 1024

\* Tenths of (size / (u1 * u2)), rounded half to even.  The division is
\* carried out in two stages so that no intermediate exceeds 2^31.
ScaledTenths(size, u1, u2) ==
    LET whole == size \div (u1 * u2)
        rem   == size % (u1 * u2)
        a     == rem \div u1
        b     == rem % u1
        t     == a * 10 + ((b * 10) \div u1)
        low   == (b * 10) % u1
        q     == t \div u2
        r     == t % u2
        \* the remainder of rem*10 by u1*u2 is r*u1 + low; compare with half
        half  == (u1 * u2) \div 2
        up    == \/ r * u1 + low > half
                 \/ (r * u1 + low = half /\ q % 2 = 1)
    IN  whole * 10 + q + (IF up THEN 1 ELSE 0)

DigitChars == <<"0", "1", "2", "3", "4", "5", "6", "7", "8", "9">>

\* str(n) of a non-negative integer, one token per digit
RECURSIVE Digits(_)
Digits(n) ==
    IF n < 10 THEN <<DigitChars[n + 1]>>
    ELSE Digits(n \div 10) \o <<DigitChars[(n % 10) + 1]>>

\* f"{x:.1f} UNIT" from the tenths of x
OneDecimal(tenths, unit) ==
    Digits(tenths \div 10) \o <<".", DigitChars[(tenths % 10) + 1], " ", unit>>

\* f"{size} B"
PlainBytes(size) == Digits(size) \o <<" ", "B">>

ListSizeStr(size) ==
    IF size < KiB THEN PlainBytes(size)
    ELSE IF size < KiB * KiB THEN OneDecimal(ScaledTenths(size, KiB, 1), "KB")
    ELSE IF size < KiB * KiB * KiB THEN OneDecimal(ScaledTenths(size, KiB, KiB), "MB")
    ELSE OneDecimal(ScaledTenths(size, KiB * 32, KiB * 32), "GB")

\* DownloadSizeStr with the boundaries on the wrong side (<= for <)
DownloadSizeStrInclusive(file_size) ==
    IF file_size <= KiB THEN PlainBytes(file_size)
    ELSE IF file_size <= KiB * KiB THEN OneDecimal(ScaledTenths(file_size, KiB, 1), "KB")
    ELSE IF file_size <= KiB * KiB * KiB
    THEN OneDecimal(ScaledTenths(file_size, KiB, KiB), "MB")
    ELSE OneDecimal(ScaledTenths(file_size, KiB * 32, KiB * 32), "GB")

DownloadSizeStr(file_size) ==
    IF file_size < KiB THEN PlainBytes(file_size)
    ELSE IF file_size < KiB * KiB THEN OneDecimal(ScaledTenths(file_size, KiB, 1), "KB")
    ELSE IF file_size < KiB * KiB * KiB THEN OneDecimal(ScaledTenths(file_size, KiB, KiB), "MB")
    ELSE OneDecimal(ScaledTenths(file_size, KiB * 32, KiB * 32), "GB")

----------------------------------------------------------------------------
(* Paths (posixpath).                                                      *)

Max(S) == CHOOSE x \in S : \A y \in S : y <= x

\* os.path.basename: what follows the last separator
Basename(p) ==
    LET seps == {i \in 1..Len(p) : p[i] = "/"}
    IN  IF seps = {} THEN p ELSE SubSeq(p, Max(seps) + 1, Len(p))

\* os.path.join(a, b): an absolute b discards a
PathJoin(a, b) ==
    IF b # <<>> /\ b[1] = "/" THEN b
    ELSE IF a = <<>> \/ a[Len(a)] = "/" THEN a \o b
    ELSE a \o <<"/">> \o b

\* Path.home()
Home == <<"/", "home", "/", "user">>

\* str(home / "Downloads"), the same on every platform
get_downloads_folder == Home \o <<"/", "Downloads">>

\* The segments between separators, in order.
RECURSIVE Segments(_)
Segments(p) ==
    LET seps == {i \in 1..Len(p) : p[i] = "/"}
    IN  IF seps = {} THEN <<p>>
        ELSE Segments(SubSeq(p, 1, Max(seps) - 1))
                 \o <<SubSeq(p, Max(seps) + 1, Len(p))>>

\* The file an absolute path names: empty and "." segments dropped, ".."
\* steps to the parent directory.
RECURSIVE Resolve(_, _)
Resolve(segs, acc) ==
    IF segs = <<>> THEN acc
    ELSE LET h == Head(segs)
         IN  IF h = <<>> \/ h = <<".">> THEN Resolve(Tail(segs), acc)
             ELSE IF h = <<"..">>
                  THEN Resolve(Tail(segs),
                               IF acc = <<>> THEN acc ELSE SubSeq(acc, 1, Len(acc) - 1))
                  ELSE Resolve(Tail(segs), Append(acc, h))

FileOf(path) == Resolve(Segments(path), <<>>)

----------------------------------------------------------------------------
(* Exceptions: the class of a raised fault decides which except clause     *)
(* takes it, first match first.                                            *)

Exc(type, code, message) == [type |-> type, code |-> code, message |-> message]

\* the classes an exception type is an instance of
Bases(type) ==
    CASE type = "NoCredentialsError" -> {"NoCredentialsError", "Exception"}
      [] type = "ClientError"        -> {"ClientError", "Exception"}
      [] type = "PermissionError"    -> {"PermissionError", "OSError", "Exception"}
      [] type = "OSError"            -> {"OSError", "Exception"}
      [] type = "TypeError"          -> {"TypeError", "Exception"}
      [] type = "CancelledError"     -> {"CancelledError", "BaseException"}
      [] OTHER                       -> {type, "Exception"}

IsInstance(e, cls) == cls \in Bases(e.type)

Caught(text) == [caught |-> TRUE, text |-> text]

Uncaught == [caught |-> FALSE]

----------------------------------------------------------------------------
(* Response texts, by kind and by the values formatted into them.          *)

TextContent(text) == [type |-> "text", text |-> text]

ConnectionOk == [kind |-> "ConnectionOk"]

MissingParameter(param, hint) ==
    [kind |-> "MissingArgument", param |-> param, hint |-> hint]

UnknownTool(name) ==
    [kind |-> "UnknownTool", name |-> name,
     available |-> <<"test_connection", "list_s3_buckets",
                     "list_s3_objects", "download_s3_file">>]

ListNotConfigured == [kind |-> "NotConfigured"]

DownloadNotConfigured == [kind |-> "NotConfigured"]

----------------------------------------------------------------------------
(* list_objects_tool: formatting and except clauses.                       *)

MaxKeysCeiling == 1000

\* EffectiveMaxKeys without the ceiling
EffectiveMaxKeysUnclamped(max_keys) == max_keys

\* min(max_keys, 1000) of an integer max_keys
EffectiveMaxKeys(max_keys) ==
    IF max_keys < MaxKeysCeiling THEN max_keys ELSE MaxKeysCeiling

\* the keyword arguments of list_objects_v2
ListParams(bucket_name, prefix, max_keys) ==
    LET base == [Bucket |-> bucket_name.s, MaxKeys |-> EffectiveMaxKeys(max_keys.n)]
    IN  IF Truthy(prefix)
        THEN [key \in {"Bucket", "MaxKeys", "Prefix"} |->
                 IF key = "Prefix" THEN prefix.s ELSE base[key]]
        ELSE base

NoObjectsReasons ==
    <<"bucket is empty", "no objects match the prefix filter",
      "no ListBucket permission", "wrong bucket, region or endpoint">>

\* ListResponseText with enumerate(objects), counting from 0
ListResponseTextFromZero(bucket_name, prefix, response) ==
    LET objects == DictGet(response, "Contents", <<>>)
    IN  IF objects = <<>>
        THEN [kind |-> "NoObjects", bucket |-> bucket_name.s,
              prefix_msg |-> IF Truthy(prefix) THEN prefix.s ELSE <<>>,
              reasons |-> NoObjectsReasons]
        ELSE [kind |-> "ObjectList", bucket |-> bucket_name.s,
              count |-> Len(objects),
              entries |-> [i \in 1..Len(objects) |->
                              [index |-> i - 1, key |-> objects[i].Key,
                               size_str |-> ListSizeStr(objects[i].Size)]],
              truncated_note |-> DictGet(response, "IsTruncated", FALSE)]

ListResponseText(bucket_name, prefix, response) ==
    LET objects == DictGet(response, "Contents", <<>>)
    IN  IF objects = <<>>
        THEN [kind |-> "NoObjects", bucket |-> bucket_name.s,
              prefix_msg |-> IF Truthy(prefix) THEN prefix.s ELSE <<>>,
              reasons |-> NoObjectsReasons]
        ELSE [kind |-> "ObjectList", bucket |-> bucket_name.s,
              count |-> Len(objects),
              entries |-> [i \in 1..Len(objects) |->
                              [index |-> i, key |-> objects[i].Key,
                               size_str |-> ListSizeStr(objects[i].Size)]],
              truncated_note |-> DictGet(response, "IsTruncated", FALSE)]

\* except Exception as e
ListCatchAll(e) ==
    IF IsInstance(e, "Exception")
    THEN Caught([kind |-> "UnexpectedError", message |-> e.message])
    ELSE Uncaught

ListExcept(e, bucket_name) ==
    IF IsInstance(e, "NoCredentialsError") THEN Caught([kind |-> "NoCredentials"])
    ELSE IF IsInstance(e, "ClientError") THEN
        IF e.code = "NoSuchBucket"
        THEN Caught([kind |-> "BucketNotFound", bucket |-> bucket_name.s])
        ELSE IF e.code = "AccessDenied"
        THEN Caught([kind |-> "AccessDenied", permission |-> "ListBucket",
                     bucket |-> bucket_name.s])
        ELSE IF e.code \in {"InvalidAccessKeyId", "SignatureDoesNotMatch"}
        THEN Caught([kind |-> "InvalidCredentials", message |-> e.message])
        ELSE Caught([kind |-> "GenericBackendError", code |-> e.code,
                     message |-> e.message])
    ELSE ListCatchAll(e)

----------------------------------------------------------------------------
(* download_file_tool: filename, formatting and except clauses.            *)

\* LocalFilename without the fallback literal
LocalFilenameNoFallback(object_key, local_filename) ==
    IF Truthy(local_filename) THEN local_filename.s ELSE Basename(object_key.s)

\* the effective local filename
LocalFilename(object_key, local_filename) ==
    IF Truthy(local_filename) THEN local_filename.s
    ELSE LET base == Basename(object_key.s)
         IN  IF base # <<>> THEN base ELSE <<"downloaded_file">>

DownloadResponseText(bucket_name, object_key, local_file_path, file_size) ==
    [kind |-> "Downloaded", bucket |-> bucket_name.s, key |-> object_key.s,
     destination |-> local_file_path, size_str |-> DownloadSizeStr(file_size)]

\* DownloadCatchAll that takes one class only (except ValueError as e)
DownloadCatchAllNarrow(e) ==
    IF IsInstance(e, "ValueError")
    THEN Caught([kind |-> "UnexpectedError", message |-> e.message])
    ELSE Uncaught

\* except Exception as e
DownloadCatchAll(e) ==
    IF IsInstance(e, "Exception")
    THEN Caught([kind |-> "UnexpectedError", message |-> e.message])
    ELSE Uncaught

\* DownloadExcept with `except OSError` written above `except PermissionError`
DownloadExceptOSErrorFirst(e, bucket_name, object_key) ==
    IF IsInstance(e, "NoCredentialsError") THEN Caught([kind |-> "NoCredentials"])
    ELSE IF IsInstance(e, "ClientError") THEN
        IF e.code = "NoSuchBucket"
        THEN Caught([kind |-> "BucketNotFound", bucket |-> bucket_name.s])
        ELSE IF e.code = "NoSuchKey"
        THEN Caught([kind |-> "ObjectNotFound", bucket |-> bucket_name.s,
                     key |-> object_key.s])
        ELSE IF e.code = "AccessDenied"
        THEN Caught([kind |-> "AccessDenied", permission |-> "GetObject",
                     bucket |-> bucket_name.s, key |-> object_key.s])
        ELSE IF e.code \in {"InvalidAccessKeyId", "SignatureDoesNotMatch"}
        THEN Caught([kind |-> "InvalidCredentials", message |-> e.message])
        ELSE Caught([kind |-> "GenericBackendError", code |-> e.code,
                     message |-> e.message])
    ELSE IF IsInstance(e, "OSError")
    THEN Caught([kind |-> "LocalFilesystemError", message |-> e.message])
    ELSE IF IsInstance(e, "PermissionError")
    THEN Caught([kind |-> "LocalPermissionError", message |-> e.message])
    ELSE DownloadCatchAll(e)

DownloadExcept(e, bucket_name, object_key) ==
    IF IsInstance(e, "NoCredentialsError") THEN Caught([kind |-> "NoCredentials"])
    ELSE IF IsInstance(e, "ClientError") THEN
        IF e.code = "NoSuchBucket"
        THEN Caught([kind |-> "BucketNotFound", bucket |-> bucket_name.s])
        ELSE IF e.code = "NoSuchKey"
        THEN Caught([kind |-> "ObjectNotFound", bucket |-> bucket_name.s,
                     key |-> object_key.s])
        ELSE IF e.code = "AccessDenied"
        THEN Caught([kind |-> "AccessDenied", permission |-> "GetObject",
                     bucket |-> bucket_name.s, key |-> object_key.s])
        ELSE IF e.code \in {"InvalidAccessKeyId", "SignatureDoesNotMatch"}
        THEN Caught([kind |-> "InvalidCredentials", message |-> e.message])
        ELSE Caught([kind |-> "GenericBackendError", code |-> e.code,
                     message |-> e.message])
    ELSE IF IsInstance(e, "PermissionError")
    THEN Caught([kind |-> "LocalPermissionError", message |-> e.message])
    ELSE IF IsInstance(e, "OSError")
    THEN Caught([kind |-> "LocalFilesystemError", message |-> e.message])
    ELSE DownloadCatchAll(e)

----------------------------------------------------------------------------
(* What callers may send and what the collaborators may answer.  The       *)
(* workload names the family of requests and answers a run draws from:     *)
(* "requests" varies names and arguments, "sizes" varies object sizes,     *)
(* "concurrent" has two invocations in flight whose downloads resolve to   *)
(* one destination.                                                        *)

Absent == [k |-> "absent"]

\* the argument mapping that holds the keys of f that are not Absent
MkArgs(f) == [key \in {x \in DOMAIN f : f[x] # Absent} |-> f[key]]

EmptyArgs == MkArgs([bucket_name |-> Absent])

Bkt == StrV(<<"bkt">>)

ToolNameInputs ==
    IF workload = "requests"
    THEN {"test_connection", "list_s3_buckets", "list_s3_objects", "download_s3_file",
          "LIST_S3_OBJECTS", "Download_S3_File", "list_objects", ""}
    ELSE {"test_connection", "list_s3_buckets", "list_s3_objects", "download_s3_file"}

BucketInputs == {Absent, StrV(<<>>), Bkt}

PrefixInputs == {Absent, StrV(<<>>), StrV(<<"logs", "/">>)}

MaxKeysInputs ==
    {Absent, IntV(-5), IntV(0), IntV(1), IntV(1000), IntV(1001), IntV(5000),
     StrV(<<"10">>)}

ObjectKeyInputs ==
    {Absent, StrV(<<>>), StrV(<<"a", "/", "b", "/", "c.txt">>),
     StrV(<<"a", "/", "b", "/">>), StrV(<<"c.txt">>)}

LocalFilenameInputs ==
    {Absent, StrV(<<>>), StrV(<<"n.bin">>), StrV(<<"/", "etc", "/", "x">>),
     StrV(<<"..", "/", "x">>)}

ListArgs ==
    IF workload = "requests"
    THEN {MkArgs([bucket_name |-> b, prefix |-> p, max_keys |-> m]) :
             b \in BucketInputs, p \in PrefixInputs, m \in MaxKeysInputs}
    ELSE {MkArgs([bucket_name |-> Bkt])}

DownloadArgs ==
    IF workload = "requests"
    THEN {MkArgs([bucket_name |-> b, object_key |-> k, local_filename |-> l]) :
             b \in BucketInputs, k \in ObjectKeyInputs, l \in LocalFilenameInputs}
    ELSE IF workload = "concurrent"
    THEN {MkArgs([bucket_name |-> Bkt, object_key |-> k]) :
             k \in {StrV(<<"a", "/", "b", "/", "c.txt">>), StrV(<<"c.txt">>)}}
    ELSE {MkArgs([bucket_name |-> Bkt, object_key |-> StrV(<<"c.txt">>)])}

ArgsFor(name) ==
    IF name = "list_s3_objects" THEN ListArgs
    ELSE IF name = "download_s3_file" THEN DownloadArgs
    ELSE {EmptyArgs, MkArgs([bucket_name |-> Bkt, object_key |-> StrV(<<"c.txt">>)])}

ErrorCodes ==
    {"NoSuchBucket", "NoSuchKey", "AccessDenied", "InvalidAccessKeyId",
     "SignatureDoesNotMatch", "InternalError"}

BackendFaults ==
    {Exc("ClientError", c, "backend said no") : c \in ErrorCodes}
        \cup {Exc("NoCredentialsError", "", "no credentials"),
              Exc("PermissionError", "", "permission denied"),
              Exc("OSError", "", "no space left"),
              Exc("RuntimeError", "", "boom")}

LocalFaults ==
    {Exc("PermissionError", "", "permission denied"),
     Exc("OSError", "", "not a directory")}

ClientFaults == {Exc("ValueError", "", "invalid endpoint")}

\* sizes around every unit boundary and every rounding case
BoundarySizes ==
    {0, 1, 999, 1000, 1023, 1024, 1025, 1075, 1076, 1280, 1536, 1792, 10240,
     1048524, 1048575, 1048576, 1048577, 1310720, 1363149, 1073741823,
     1073741824, 1073741825, 1342177280, 2147483647}

ObjectSizes ==
    IF workload = "sizes" THEN BoundarySizes
    ELSE IF workload = "concurrent" THEN {0, 1536}
    ELSE {1536}

MaxListed == 2

ObjectPool ==
    IF workload = "sizes"
    THEN {[Key |-> <<"c.txt">>, Size |-> s] : s \in BoundarySizes}
    ELSE {[Key |-> <<"a", "/", "b.txt">>, Size |-> 1023],
          [Key |-> <<"z.bin">>, Size |-> 1048576]}

\* the listings the backend may return: up to MaxListed objects in any order
Listings ==
    IF workload = "sizes" THEN {<<o>> : o \in ObjectPool}
    ELSE UNION {[1..n -> ObjectPool] : n \in 0..MaxListed}

ListResponses ==
    {[IsTruncated |-> FALSE]}
        \cup {[Contents |-> c] : c \in Listings}
        \cup {[Contents |-> c, IsTruncated |-> t] : c \in Listings, t \in BOOLEAN}

----------------------------------------------------------------------------
(* One tool invocation.                                                    *)

NoPending == [kind |-> "none"]

Return(text) == [kind |-> "return", text |-> text]

Raise(e) == [kind |-> "raise", exc |-> e]

NoResponse == [IsTruncated |-> FALSE]

NoFault == Exc("", "", "")

IdleReq ==
    [pc |-> "idle", name |-> "", arguments |-> EmptyArgs, handlers |-> <<>>,
     bucket_name |-> None, prefix |-> None, max_keys |-> None,
     object_key |-> None, local_filename |-> None, local_file_path |-> <<>>,
     sessions |-> 0, opened |-> 0, open |-> 0, calls |-> <<>>,
     response |-> NoResponse, fetched |-> 0, file_size |-> 0, fault |-> NoFault,
     pending |-> NoPending, result |-> <<>>, raised |-> FALSE]

\* the invocation ends with one text result
Returned(rec, text) ==
    [rec EXCEPT !.pc = "returned", !.pending = NoPending,
                !.result = <<TextContent(text)>>]

\* the invocation ends as the except clauses decide
Handled(rec, h) ==
    IF h.caught THEN Returned(rec, h.text)
    ELSE [rec EXCEPT !.pc = "returned", !.pending = NoPending, !.raised = TRUE]

\* exception e reaches the except clauses of list_objects_tool
ListFail(rec, e) ==
    Handled([rec EXCEPT !.fault = e], ListExcept(e, rec.bucket_name))

\* exception e reaches the except clauses of download_file_tool
DownloadFail(rec, e) ==
    Handled([rec EXCEPT !.fault = e],
            DownloadExcept(e, rec.bucket_name, rec.object_key))

----------------------------------------------------------------------------
(* call_tool: the dispatcher, with each handler's code up to its first     *)
(* suspension point.                                                       *)

\* str.lower() on the names a caller sends
Lower(name) ==
    CASE name = "LIST_S3_OBJECTS"  -> "list_s3_objects"
      [] name = "Download_S3_File" -> "download_s3_file"
      [] OTHER                     -> name

\* NameIs that ignores case
NameIsFolded(name, tool) == Lower(name) = tool

\* name == "..."
NameIs(name, tool) == name = tool

\* ListEnter without the configuration check
ListEnterUnchecked(rec) == [rec EXCEPT !.pc = "list_get_session"]

\* list_objects_tool, from entry to the wait for the session
ListEnter(rec) ==
    IF ~IsConfigured(cfg) THEN Returned(rec, ListNotConfigured)
    ELSE [rec EXCEPT !.pc = "list_get_session"]

\* download_file_tool, from entry to the wait for the session; makedirs is
\* the outcome of os.makedirs (None when the directory is there or created)
DownloadEnter(rec, makedirs) ==
    IF ~IsConfigured(cfg) THEN Returned(rec, DownloadNotConfigured)
    ELSE LET name == LocalFilename(rec.object_key, rec.local_filename)
             r1   == [rec EXCEPT !.local_filename = StrV(name),
                                 !.local_file_path = PathJoin(get_downloads_folder, name)]
         IN  IF makedirs = None THEN [r1 EXCEPT !.pc = "download_get_session"]
             ELSE DownloadFail(r1, makedirs)

\* the list_s3_objects branch
CallListObjects(rec, arguments) ==
    LET bucket_name == DictGet(arguments, "bucket_name", None)
    IN  IF ~Truthy(bucket_name)
        THEN Returned(rec, MissingParameter("bucket_name", "list"))
        ELSE ListEnter([rec EXCEPT
                 !.handlers = Append(@, "list_objects_tool"),
                 !.bucket_name = bucket_name,
                 !.prefix = DictGet(arguments, "prefix", StrV(<<>>)),
                 !.max_keys = DictGet(arguments, "max_keys", IntV(100))])

\* the download_s3_file branch
CallDownloadFile(rec, arguments, makedirs) ==
    LET bucket_name == DictGet(arguments, "bucket_name", None)
        object_key  == DictGet(arguments, "object_key", None)
    IN  IF ~Truthy(bucket_name)
        THEN Returned(rec, MissingParameter("bucket_name", "download"))
        ELSE IF ~Truthy(object_key)
        THEN Returned(rec, MissingParameter("object_key", "download"))
        ELSE DownloadEnter([rec EXCEPT
                 !.handlers = Append(@, "download_file_tool"),
                 !.bucket_name = bucket_name,
                 !.object_key = object_key,
                 !.local_filename = DictGet(arguments, "local_filename", None)],
               makedirs)

Dispatch(name, arguments, makedirs) ==
    LET rec == [IdleReq EXCEPT !.name = name, !.arguments = arguments]
    IN  IF NameIs(name, "test_connection") THEN Returned(rec, ConnectionOk)
        ELSE IF NameIs(name, "list_s3_buckets")
        THEN [rec EXCEPT !.handlers = Append(@, "list_buckets_tool"),
                         !.pc = "list_buckets"]
        ELSE IF NameIs(name, "list_s3_objects") THEN CallListObjects(rec, arguments)
        ELSE IF NameIs(name, "download_s3_file")
        THEN CallDownloadFile(rec, arguments, makedirs)
        ELSE Returned(rec, UnknownTool(name))

MakedirsOutcomes(name) ==
    IF name = "download_s3_file" THEN {None} \cup LocalFaults ELSE {None}

CallTool(r) ==
    /\ req[r].pc = "idle"
    /\ \E name \in ToolNameInputs :
         \E arguments \in ArgsFor(name) :
           \E makedirs \in MakedirsOutcomes(name) :
             req' = [req EXCEPT ![r] = Dispatch(name, arguments, makedirs)]
    /\ UNCHANGED <<cfg, fs, workload>>

\* list_buckets_tool: one text result, the guidance message when unconfigured
ListBucketsTool(r) ==
    /\ req[r].pc = "list_buckets"
    /\ \E kind \in {"BucketList", "NoCredentials", "GenericBackendError"} :
         req' = [req EXCEPT ![r] =
                    Returned(req[r], IF IsConfigured(cfg) THEN [kind |-> kind]
                                     ELSE [kind |-> "NotConfigured"])]
    /\ UNCHANGED <<cfg, fs, workload>>

----------------------------------------------------------------------------
(* list_objects_tool, step by step.                                        *)

ListGetSession(r) ==
    /\ req[r].pc = "list_get_session"
    /\ \/ req' = [req EXCEPT ![r] = [req[r] EXCEPT !.sessions = @ + 1,
                                                   !.pc = "list_open_client"]]
       \/ \E e \in ClientFaults :
            req' = [req EXCEPT ![r] = ListFail(req[r], e)]
    /\ UNCHANGED <<cfg, fs, workload>>

ListOpenClient(r) ==
    /\ req[r].pc = "list_open_client"
    /\ \/ req' = [req EXCEPT ![r] = [req[r] EXCEPT !.opened = @ + 1, !.open = @ + 1,
                                                   !.pc = "list_call"]]
       \/ \E e \in ClientFaults :
            req' = [req EXCEPT ![r] = ListFail(req[r], e)]
    /\ UNCHANGED <<cfg, fs, workload>>

\* the body of the client scope: parameters, the one backend call, formatting
ListCall(r) ==
    /\ req[r].pc = "list_call"
    /\ LET rec == req[r]
       IN  IF rec.max_keys.k # "int"
           THEN req' = [req EXCEPT ![r] =
                           [rec EXCEPT !.pc = "list_exit_client",
                                       !.pending = Raise(Exc("TypeError", "", "min"))]]
           ELSE LET call == [op |-> "list_objects_v2",
                             params |-> ListParams(rec.bucket_name, rec.prefix, rec.max_keys)]
                    sent == [rec EXCEPT !.calls = Append(@, call),
                                        !.pc = "list_exit_client"]
                IN  \/ \E response \in ListResponses :
                         req' = [req EXCEPT ![r] =
                                    [sent EXCEPT
                                        !.response = response,
                                        !.pending =
                                            Return(ListResponseText(rec.bucket_name,
                                                                    rec.prefix, response))]]
                    \/ \E e \in BackendFaults :
                         req' = [req EXCEPT ![r] = [sent EXCEPT !.pending = Raise(e)]]
    /\ UNCHANGED <<cfg, fs, workload>>

\* ListScopeExit that skips the release on the empty-listing early return
ListScopeExitLeaky(rec) ==
    IF rec.pending.kind = "return" /\ rec.pending.text.kind = "NoObjects" THEN rec
    ELSE [rec EXCEPT !.open = @ - 1]

\* the end of `async with`: the client is released however the body ended
ListScopeExit(rec) == [rec EXCEPT !.open = @ - 1]

\* leaving the client scope, then the return or the except clause
ListExitClient(r) ==
    /\ req[r].pc = "list_exit_client"
    /\ LET rec == ListScopeExit(req[r])
       IN  req' = [req EXCEPT ![r] =
                      IF rec.pending.kind = "return"
                      THEN Returned(rec, rec.pending.text)
                      ELSE ListFail(rec, rec.pending.exc)]
    /\ UNCHANGED <<cfg, fs, workload>>

----------------------------------------------------------------------------
(* download_file_tool, step by step.                                       *)

DownloadGetSession(r) ==
    /\ req[r].pc = "download_get_session"
    /\ \/ req' = [req EXCEPT ![r] = [req[r] EXCEPT !.sessions = @ + 1,
                                                   !.pc = "download_open_client"]]
       \/ \E e \in ClientFaults :
            req' = [req EXCEPT ![r] =
                       DownloadFail(req[r], e)]
    /\ UNCHANGED <<cfg, fs, workload>>

DownloadOpenClient(r) ==
    /\ req[r].pc = "download_open_client"
    /\ \/ req' = [req EXCEPT ![r] = [req[r] EXCEPT !.opened = @ + 1, !.open = @ + 1,
                                                   !.pc = "download_call"]]
       \/ \E e \in ClientFaults :
            req' = [req EXCEPT ![r] =
                       DownloadFail(req[r], e)]
    /\ UNCHANGED <<cfg, fs, workload>>

\* the file system with `size` bytes stored at `path`
WriteFile(files, path, size) ==
    [f \in DOMAIN files \cup {FileOf(path)} |->
        IF f = FileOf(path) THEN size ELSE files[f]]

\* os.path.getsize
GetSize(files, path) == files[FileOf(path)]

\* the body of the client scope up to the fetch: `await download_file` hands
\* control to the event loop, and the fetch stores the object at the path (or
\* fails) while the handler is suspended
DownloadCall(r) ==
    /\ req[r].pc = "download_call"
    /\ LET rec  == req[r]
           call == [op |-> "download_file", bucket |-> rec.bucket_name.s,
                    key |-> rec.object_key.s, filename |-> rec.local_file_path]
           sent == [rec EXCEPT !.calls = Append(@, call)]
       IN  \/ \E size \in ObjectSizes :
                /\ fs' = WriteFile(fs, rec.local_file_path, size)
                /\ req' = [req EXCEPT ![r] =
                              [sent EXCEPT !.fetched = size, !.pc = "download_fetched"]]
           \/ \E e \in BackendFaults :
                /\ req' = [req EXCEPT ![r] =
                              [sent EXCEPT !.pending = Raise(e),
                                           !.pc = "download_exit_client"]]
                /\ fs' = fs
    /\ UNCHANGED <<cfg, workload>>

\* the handler resumes after the fetch: the size of the file, formatting
DownloadGetSize(r) ==
    /\ req[r].pc = "download_fetched"
    /\ LET rec       == req[r]
           file_size == GetSize(fs, rec.local_file_path)
       IN  req' = [req EXCEPT ![r] =
                      [rec EXCEPT
                          !.file_size = file_size,
                          !.pc = "download_exit_client",
                          !.pending =
                              Return(DownloadResponseText(
                                  rec.bucket_name, rec.object_key,
                                  rec.local_file_path, file_size))]]
    /\ UNCHANGED <<cfg, fs, workload>>

\* the end of `async with`: the client is released however the body ended
DownloadScopeExit(rec) == [rec EXCEPT !.open = @ - 1]

\* leaving the client scope, then the return or the except clause
DownloadExitClient(r) ==
    /\ req[r].pc = "download_exit_client"
    /\ LET rec == DownloadScopeExit(req[r])
       IN  req' = [req EXCEPT ![r] =
                      IF rec.pending.kind = "return"
                      THEN Returned(rec, rec.pending.text)
                      ELSE DownloadFail(rec, rec.pending.exc)]
    /\ UNCHANGED <<cfg, fs, workload>>

----------------------------------------------------------------------------
(* The server: one configuration; requests handled one at a time, or two   *)
(* in flight at once when the transport runs each request as its own task. *)

\* the transport writes the result back and the slot takes the next request
Respond(r) ==
    /\ req[r].pc = "returned"
    /\ req' = [req EXCEPT ![r] = IdleReq]
    /\ UNCHANGED <<cfg, fs, workload>>

NoFiles == [f \in {} |-> 0]

Init ==
    /\ workload = "requests"
    /\ cfg \in FromEnvironment
    /\ req = [r \in {1} |-> IdleReq]
    /\ fs = NoFiles

InitSizes ==
    /\ workload = "sizes"
    /\ cfg \in FromEnvironment
    /\ req = [r \in {1} |-> IdleReq]
    /\ fs = NoFiles

InitConcurrent ==
    /\ workload = "concurrent"
    /\ cfg \in FromEnvironment
    /\ req = [r \in {1, 2} |-> IdleReq]
    /\ fs = NoFiles

Next ==
    \/ \E r \in DOMAIN req : CallTool(r)
    \/ \E r \in DOMAIN req : ListBucketsTool(r)
    \/ \E r \in DOMAIN req : ListGetSession(r)
    \/ \E r \in DOMAIN req : ListOpenClient(r)
    \/ \E r \in DOMAIN req : ListCall(r)
    \/ \E r \in DOMAIN req : ListExitClient(r)
    \/ \E r \in DOMAIN req : DownloadGetSession(r)
    \/ \E r \in DOMAIN req : DownloadOpenClient(r)
    \/ \E r \in DOMAIN req : DownloadCall(r)
    \/ \E r \in DOMAIN req : DownloadGetSize(r)
    \/ \E r \in DOMAIN req : DownloadExitClient(r)
    \/ \E r \in DOMAIN req : Respond(r)

Spec == Init /\ [][Next]_vars

SpecSizes == InitSizes /\ [][Next]_vars

SpecConcurrent == InitConcurrent /\ [][Next]_vars

----------------------------------------------------------------------------
(* Properties.                                                             *)

\* the argument is there and is not the empty string
Present(arguments, key) == key \in DOMAIN arguments /\ arguments[key] # StrV(<<>>)

RequiredPresent(rec) ==
    \/ rec.name = "list_s3_objects" /\ Present(rec.arguments, "bucket_name")
    \/ /\ rec.name = "download_s3_file"
       /\ Present(rec.arguments, "bucket_name")
       /\ Present(rec.arguments, "object_key")

Unconfigured == cfg.access_key = <<>> \/ cfg.secret_key = <<>>

\* C1: with the access key or the secret key empty, a list_s3_objects or
\* download_s3_file call that has its required arguments returns the
\* NotConfigured guidance message at once; no session and no client is acquired
\* and no backend operation is issued for it.
C1_UnconfiguredNoNetwork ==
    Unconfigured =>
        \A r \in DOMAIN req :
            (req[r].pc # "idle" /\ RequiredPresent(req[r])) =>
                /\ req[r].pc = "returned"
                /\ req[r].result = <<TextContent([kind |-> "NotConfigured"])>>
                /\ ~req[r].raised
                /\ req[r].sessions = 0
                /\ req[r].opened = 0
                /\ req[r].open = 0
                /\ req[r].calls = <<>>

C1_Witness ==
    /\ cfg.access_key # <<>>
    /\ cfg.secret_key = <<>>
    /\ \E r \in DOMAIN req :
        /\ req[r].name = "download_s3_file"
        /\ RequiredPresent(req[r])
        /\ req[r].handlers = <<"download_file_tool">>
        /\ req[r].pc = "returned"

NoStorageUse(rec) ==
    rec.sessions = 0 /\ rec.opened = 0 /\ rec.open = 0 /\ rec.calls = <<>>

\* the invocation was answered, before any handler, that `param` is missing
MissingReply(rec, param) ==
    /\ rec.pc = "returned"
    /\ Len(rec.result) = 1
    /\ rec.result[1].type = "text"
    /\ rec.result[1].text.kind = "MissingArgument"
    /\ rec.result[1].text.param = param
    /\ rec.handlers = <<>>
    /\ NoStorageUse(rec)

\* C2: a list_s3_objects call without a non-empty bucket_name, and a
\* download_s3_file call without a non-empty bucket_name or object_key, is
\* answered with the message that names a missing parameter (bucket_name when
\* both are missing) and reaches neither the handler nor the storage client;
\* with every required argument present the handler is invoked exactly once.
C2_RequiredArguments ==
    \A r \in DOMAIN req :
        LET rec    == req[r]
            bucket == Present(rec.arguments, "bucket_name")
            key    == Present(rec.arguments, "object_key")
        IN  rec.pc # "idle" =>
              /\ rec.name = "list_s3_objects" =>
                    IF bucket THEN rec.handlers = <<"list_objects_tool">>
                    ELSE MissingReply(rec, "bucket_name")
              /\ rec.name = "download_s3_file" =>
                    IF bucket /\ key THEN rec.handlers = <<"download_file_tool">>
                    ELSE IF ~bucket THEN MissingReply(rec, "bucket_name")
                    ELSE MissingReply(rec, "object_key")

C2_Witness ==
    \E r \in DOMAIN req :
        /\ req[r].name = "download_s3_file"
        /\ "bucket_name" \notin DOMAIN req[r].arguments
        /\ "object_key" \in DOMAIN req[r].arguments
        /\ req[r].arguments["object_key"] = StrV(<<>>)
        /\ MissingReply(req[r], "bucket_name")

ToolNames == {list_tools[i].name : i \in 1..Len(list_tools)}

IsUnknownReply(rec) ==
    /\ rec.pc = "returned"
    /\ Len(rec.result) = 1
    /\ rec.result[1].text.kind = "UnknownTool"

\* C3: list_tools has 4 descriptors with distinct names; a call is dispatched
\* exactly when its name is, letter for letter, one of them, and every other
\* name gets the UnknownTool message listing those 4 names, with no handler and
\* no storage client involved.
C3_ExactDispatch ==
    /\ Len(list_tools) = 4
    /\ Cardinality(ToolNames) = 4
    /\ \A r \in DOMAIN req :
         LET rec == req[r]
         IN  rec.pc # "idle" =>
               /\ rec.name \in ToolNames <=> ~IsUnknownReply(rec)
               /\ IsUnknownReply(rec) =>
                    /\ rec.result[1].text.name = rec.name
                    /\ rec.result[1].text.available =
                           [i \in 1..Len(list_tools) |-> list_tools[i].name]
                    /\ rec.handlers = <<>>
                    /\ NoStorageUse(rec)

C3_Witness ==
    \E r \in DOMAIN req :
        /\ req[r].name = "LIST_S3_OBJECTS"
        /\ Present(req[r].arguments, "bucket_name")
        /\ IsUnknownReply(req[r])

\* a configured list_s3_objects invocation that reached its handler
ConfiguredList(rec) ==
    /\ rec.pc # "idle"
    /\ rec.name = "list_s3_objects"
    /\ rec.handlers = <<"list_objects_tool">>
    /\ ~Unconfigured

\* what the one call must carry: the capped MaxKeys and the Prefix filter
ListCallShape(rec, call) ==
    /\ call.op = "list_objects_v2"
    /\ call.params.MaxKeys <= 1000
    /\ DictGet(rec.arguments, "max_keys", None) = IntV(5000) => call.params.MaxKeys = 1000
    /\ "Prefix" \in DOMAIN call.params <=> Present(rec.arguments, "prefix")
    /\ "Prefix" \in DOMAIN call.params => call.params.Prefix = rec.arguments["prefix"].s

\* C4 as stated: every configured list_s3_objects invocation issues exactly one
\* list-objects call, with MaxKeys at most 1000 and Prefix iff prefix is
\* non-empty.
C4_ExactlyOneCall ==
    \A r \in DOMAIN req :
        (ConfiguredList(req[r]) /\ req[r].pc = "returned") =>
            /\ Len(req[r].calls) = 1
            /\ ListCallShape(req[r], req[r].calls[1])

\* C4 as amended: a configured list_s3_objects invocation issues at most one
\* list-objects call, and exactly one once its client was opened and max_keys
\* is an integer, whether the call succeeds, fails or is truncated; MaxKeys is
\* at most 1000 (5000 sends 1000) and Prefix is sent iff prefix is non-empty.
C4_AtMostOneCall ==
    \A r \in DOMAIN req :
        LET rec == req[r]
        IN  ConfiguredList(rec) =>
              /\ Len(rec.calls) <= 1
              /\ (rec.pc = "returned" /\ rec.opened = 1 /\ rec.max_keys.k = "int")
                    => Len(rec.calls) = 1
              /\ rec.opened = 0 => rec.calls = <<>>
              /\ \A i \in 1..Len(rec.calls) : ListCallShape(rec, rec.calls[i])

C4_Witness ==
    \E r \in DOMAIN req :
        /\ ConfiguredList(req[r])
        /\ req[r].pc = "returned"
        /\ DictGet(req[r].arguments, "max_keys", None) = IntV(5000)
        /\ "Contents" \in DOMAIN req[r].response
        /\ Len(req[r].response.Contents) = MaxListed
        /\ "IsTruncated" \in DOMAIN req[r].response
        /\ req[r].response.IsTruncated
        /\ Len(req[r].calls) = 1
        /\ req[r].calls[1].params.MaxKeys = 1000

\* C5: for every integer max_keys the MaxKeys sent to the backend lies in
\* 1..1000, and it is 100 when max_keys is absent.
C5_ClampedRange ==
    \A r \in DOMAIN req :
        LET rec == req[r]
        IN  \A i \in 1..Len(rec.calls) :
              rec.calls[i].op = "list_objects_v2" =>
                /\ rec.calls[i].params.MaxKeys \in MaxKeysSchemaMinimum..MaxKeysSchemaMaximum
                /\ "max_keys" \notin DOMAIN rec.arguments =>
                       rec.calls[i].params.MaxKeys = MaxKeysSchemaDefault

\* the file the path names lies below <home>/Downloads
InsideDownloads(path) ==
    LET f == FileOf(path)
        d == FileOf(get_downloads_folder)
    IN  Len(f) > Len(d) /\ SubSeq(f, 1, Len(d)) = d

\* C6: a download_s3_file invocation passes at most one destination to the
\* fetch, and that destination lies inside <home>/Downloads whatever
\* bucket_name, object_key and local_filename are.
C6_InsideDownloads ==
    \A r \in DOMAIN req :
        LET rec == req[r]
        IN  rec.name = "download_s3_file" =>
              /\ Len(rec.calls) <= 1
              /\ \A i \in 1..Len(rec.calls) :
                    /\ InsideDownloads(rec.calls[i].filename)
                    /\ FileOf(rec.calls[i].filename) =
                           Append(FileOf(get_downloads_folder), rec.local_filename.s)

\* the final path segment of a key
LastSegment(key) == Segments(key)[Len(Segments(key))]

\* a configured download_s3_file invocation that reached its handler
ConfiguredDownload(rec) ==
    /\ rec.pc # "idle"
    /\ rec.name = "download_s3_file"
    /\ rec.handlers = <<"download_file_tool">>
    /\ ~Unconfigured

\* C7: the effective local filename is the supplied local_filename when it is
\* non-empty, otherwise the final segment of object_key, otherwise (the key
\* ends in a separator) the literal downloaded_file; it is never empty.
C7_EffectiveFilename ==
    \A r \in DOMAIN req :
        LET rec      == req[r]
            supplied == Present(rec.arguments, "local_filename")
            key      == rec.arguments["object_key"].s
            name     == rec.local_filename.s
        IN  ConfiguredDownload(rec) =>
              /\ name # <<>>
              /\ supplied => name = rec.arguments["local_filename"].s
              /\ (~supplied /\ LastSegment(key) # <<>>) => name = LastSegment(key)
              /\ (~supplied /\ LastSegment(key) = <<>>) => name = <<"downloaded_file">>
              /\ (~supplied /\ key = <<"a", "/", "b", "/", "c.txt">>) => name = <<"c.txt">>
              /\ (~supplied /\ key = <<"a", "/", "b", "/">>) => name = <<"downloaded_file">>

C7_Witness ==
    \E r \in DOMAIN req :
        /\ ConfiguredDownload(req[r])
        /\ ~Present(req[r].arguments, "local_filename")
        /\ req[r].arguments["object_key"].s = <<"a", "/", "b", "/">>
        /\ req[r].local_filename = StrV(<<"downloaded_file">>)
        /\ Len(req[r].calls) = 1

\* the number a sequence of digit tokens writes
RECURSIVE DigitsValue(_)
DigitsValue(ds) ==
    IF ds = <<>> THEN 0
    ELSE DigitsValue(SubSeq(ds, 1, Len(ds) - 1)) * 10
             + (CHOOSE d \in 0..9 : DigitChars[d + 1] = ds[Len(ds)])

UnitFor(size) ==
    IF size < 1024 THEN "B"
    ELSE IF size < 1048576 THEN "KB"
    ELSE IF size < 1073741824 THEN "MB"
    ELSE "GB"

\* str is a rendering of size as the claim describes it
SizeRendering(size, str) ==
    /\ Len(str) >= 3
    /\ str[Len(str)] = UnitFor(size)
    /\ str[Len(str) - 1] = " "
    /\ size < 1024 => DigitsValue(SubSeq(str, 1, Len(str) - 2)) = size
    /\ size >= 1024 => str[Len(str) - 3] = "."
    /\ size = 0 => str = <<"0", " ", "B">>
    /\ size = 1023 => str = <<"1", "0", "2", "3", " ", "B">>
    /\ size = 1024 => str = <<"1", ".", "0", " ", "KB">>
    /\ size = 1048576 => str = <<"1", ".", "0", " ", "MB">>
    /\ size = 1073741824 => str = <<"1", ".", "0", " ", "GB">>

\* C8: a size is rendered in B (the exact integer) below 1024, in KB below
\* 1024^2, in MB below 1024^3 and in GB from there on, with the five stated
\* examples; and for one size the list handler and the download handler give
\* the same unit and the same scaled value.
C8_SizeFormat ==
    \A r \in DOMAIN req :
        LET rec == req[r]
        IN  (rec.pc = "returned" /\ Len(rec.result) = 1) =>
              LET text == rec.result[1].text
              IN  /\ text.kind = "Downloaded" =>
                        /\ SizeRendering(rec.file_size, text.size_str)
                        /\ text.size_str = ListSizeStr(rec.file_size)
                  /\ text.kind = "ObjectList" =>
                        \A i \in 1..Len(rec.response.Contents) :
                            /\ SizeRendering(rec.response.Contents[i].Size,
                                             text.entries[i].size_str)
                            /\ text.entries[i].size_str =
                                   DownloadSizeStr(rec.response.Contents[i].Size)

C8_Witness ==
    \E r \in DOMAIN req :
        /\ req[r].pc = "returned"
        /\ Len(req[r].result) = 1
        /\ req[r].result[1].text.kind = "Downloaded"
        /\ req[r].file_size = 1073741824
        /\ req[r].result[1].text.size_str = <<"1", ".", "0", " ", "GB">>
        /\ \E f \in DOMAIN fs : fs[f] = 1073741824

\* C9: a handler opens its client only once the configuration check has
\* passed, holds at most one, and has released it by the time it returns, on
\* the success path, on the empty-listing early return and on every fault
\* raised inside the client scope.
C9_ClientScoped ==
    \A r \in DOMAIN req :
        LET rec == req[r]
        IN  /\ rec.open \in {0, 1}
            /\ rec.opened <= 1
            /\ rec.open <= rec.opened
            /\ rec.opened > 0 => (~Unconfigured /\ rec.sessions = 1)
            /\ rec.open = 1 <=> rec.pc \in {"list_call", "list_exit_client",
                                             "download_call", "download_fetched",
                                             "download_exit_client"}
            /\ rec.pc \in {"idle", "returned"} => rec.open = 0

C9_Witness ==
    \E r \in DOMAIN req :
        /\ req[r].pc = "returned"
        /\ req[r].opened = 1
        /\ req[r].open = 0
        /\ Len(req[r].calls) = 1
        /\ Len(req[r].result) = 1
        /\ req[r].result[1].text.kind = "NoObjects"

\* C10: whatever the backend call and the local filesystem steps do, both
\* handlers return a formatted text and raise nothing to the dispatcher: an
\* invocation that has ended has exactly one text result, one that has not
\* ended has none.
C10_AlwaysTextResult ==
    \A r \in DOMAIN req :
        LET rec == req[r]
        IN  /\ ~rec.raised
            /\ rec.pc = "returned" =>
                  /\ Len(rec.result) = 1
                  /\ rec.result[1].type = "text"
                  /\ rec.pending = NoPending
            /\ rec.pc # "returned" => rec.result = <<>>
            /\ rec.pc \in {"idle", "returned", "list_buckets", "list_get_session",
                           "list_open_client", "list_call", "list_exit_client",
                           "download_get_session", "download_open_client",
                           "download_call", "download_fetched",
                           "download_exit_client"}

C10_Witness ==
    \E r \in DOMAIN req :
        /\ req[r].pc = "returned"
        /\ req[r].name = "download_s3_file"
        /\ req[r].opened = 1
        /\ Len(req[r].calls) = 1
        /\ Len(req[r].result) = 1
        /\ req[r].result[1].text.kind = "UnexpectedError"
        /\ req[r].result[1].text.message = "boom"

\* C11: invocations in flight together do not affect one another: the text a
\* handler returns after a successful backend call is the one it would return
\* alone with the same arguments, configuration and backend outcome; a
\* download reports the size of the object its own fetch stored, a listing
\* shows the objects its own call returned.
C11_AsIfAlone ==
    \A r \in DOMAIN req :
        LET rec == req[r]
        IN  (rec.pc = "returned" /\ Len(rec.result) = 1) =>
                LET text == rec.result[1].text
                IN  /\ text.kind = "Downloaded" =>
                          text = DownloadResponseText(rec.bucket_name, rec.object_key,
                                                      rec.local_file_path, rec.fetched)
                    /\ text.kind \in {"ObjectList", "NoObjects"} =>
                          text = ListResponseText(rec.bucket_name, rec.prefix,
                                                  rec.response)

\* a list_s3_objects invocation that has ended after its one backend call
\* succeeded
ListSucceeded(rec) ==
    /\ rec.pc = "returned"
    /\ rec.handlers = <<"list_objects_tool">>
    /\ Len(rec.calls) = 1
    /\ rec.fault = NoFault

ErrorKinds ==
    {"NotConfigured", "MissingArgument", "UnknownTool", "NoCredentials",
     "BucketNotFound", "ObjectNotFound", "AccessDenied", "InvalidCredentials",
     "GenericBackendError", "LocalPermissionError", "LocalFilesystemError",
     "UnexpectedError"}

\* C12: after a successful list call, an empty object set gives the
\* four-reason diagnostic and no error message; a non-empty one gives every
\* returned object once, numbered 1..n in the backend's order, under a header
\* count of n, and the truncation note exactly when the backend flagged the
\* listing as truncated.
C12_ListingContent ==
    \A r \in DOMAIN req :
        LET rec == req[r]
        IN  ListSucceeded(rec) =>
                LET objects   == DictGet(rec.response, "Contents", <<>>)
                    truncated == DictGet(rec.response, "IsTruncated", FALSE)
                    text      == rec.result[1].text
                IN  /\ Len(rec.result) = 1
                    /\ text.kind \notin ErrorKinds
                    /\ objects = <<>> =>
                          /\ text.kind = "NoObjects"
                          /\ text.reasons =
                                <<"bucket is empty", "no objects match the prefix filter",
                                  "no ListBucket permission",
                                  "wrong bucket, region or endpoint">>
                    /\ objects # <<>> =>
                          /\ text.kind = "ObjectList"
                          /\ text.count = Len(objects)
                          /\ DOMAIN text.entries = 1..Len(objects)
                          /\ \A i \in 1..Len(objects) :
                                /\ text.entries[i].index = i
                                /\ text.entries[i].key = objects[i].Key
                          /\ text.truncated_note <=> truncated

C12_Witness ==
    \E r \in DOMAIN req :
        /\ ListSucceeded(req[r])
        /\ Len(DictGet(req[r].response, "Contents", <<>>)) = MaxListed
        /\ req[r].response.Contents[1] # req[r].response.Contents[2]
        /\ DictGet(req[r].response, "IsTruncated", FALSE)
        /\ req[r].result[1].text.kind = "ObjectList"
        /\ req[r].result[1].text.truncated_note

\* the message kind the error taxonomy assigns to a fault, per handler
ErrorKindFor(handler, e) ==
    IF e.type = "NoCredentialsError" THEN "NoCredentials"
    ELSE IF e.type = "ClientError" THEN
        CASE e.code = "NoSuchBucket" -> "BucketNotFound"
          [] e.code = "AccessDenied" -> "AccessDenied"
          [] e.code \in {"InvalidAccessKeyId", "SignatureDoesNotMatch"} ->
                "InvalidCredentials"
          [] e.code = "NoSuchKey" /\ handler = "download_file_tool" -> "ObjectNotFound"
          [] OTHER -> "GenericBackendError"
    ELSE IF handler = "download_file_tool" /\ e.type = "PermissionError"
    THEN "LocalPermissionError"
    ELSE IF handler = "download_file_tool" /\ e.type = "OSError"
    THEN "LocalFilesystemError"
    ELSE "UnexpectedError"

FaultKinds ==
    {"NoCredentials", "BucketNotFound", "ObjectNotFound", "AccessDenied",
     "InvalidCredentials", "GenericBackendError", "LocalPermissionError",
     "LocalFilesystemError", "UnexpectedError"}

\* C13: each error kind has its own message and no other's.  In both handlers
\* a missing-credentials fault gives NoCredentials, code NoSuchBucket gives
\* BucketNotFound, AccessDenied gives AccessDenied naming ListBucket (list) or
\* GetObject (download), InvalidAccessKeyId and SignatureDoesNotMatch give
\* InvalidCredentials, any other code gives GenericBackendError with the raw
\* code and message; NoSuchKey gives ObjectNotFound in the download handler
\* only; there a local permission error gives LocalPermissionError, another
\* local I/O error LocalFilesystemError, and anything else UnexpectedError.
\* An invocation in which nothing was raised gets none of these messages.
C13_ErrorMapping ==
    \A r \in DOMAIN req :
        LET rec == req[r]
        IN  (/\ rec.pc = "returned"
             /\ rec.handlers \in {<<"list_objects_tool">>, <<"download_file_tool">>}) =>
                LET handler == rec.handlers[1]
                    e       == rec.fault
                    text    == rec.result[1].text
                IN  /\ Len(rec.result) = 1
                    /\ e = NoFault => text.kind \notin FaultKinds
                    /\ e # NoFault =>
                          /\ text.kind = ErrorKindFor(handler, e)
                          /\ text.kind = "AccessDenied" =>
                                text.permission =
                                    IF handler = "list_objects_tool"
                                    THEN "ListBucket" ELSE "GetObject"
                          /\ text.kind = "GenericBackendError" =>
                                /\ text.code = e.code
                                /\ text.message = e.message
                          /\ text.kind = "ObjectNotFound" =>
                                handler = "download_file_tool"

C13_Witness ==
    \E r \in DOMAIN req :
        /\ req[r].pc = "returned"
        /\ req[r].handlers = <<"download_file_tool">>
        /\ req[r].opened = 1
        /\ req[r].fault.type = "PermissionError"
        /\ Len(req[r].result) = 1
        /\ req[r].result[1].text.kind = "LocalPermissionError"

====
